---- MODULE Spec2Model ----
(***************************************************************************)
(* StrangleStrat (strategyManager/StrangleStrat.py): the constructor's     *)
(* guard on unsupported arguments, the scan of checkForSignal over one     *)
(* option chain, and the predicates isMonthlyExp and hasMinimumDTE.        *)
(*                                                                         *)
(* Encoding of Python values.  None is the empty tuple and a present       *)
(* optional value v is <<v>>; the empty list [] the scan starts from is    *)
(* the empty tuple as well and a stored option object is <<option>>.       *)
(* Deltas are integers in hundredths (0.16 is 16).  A datetime is a record *)
(* [ord, hour]: ord is the proleptic Gregorian ordinal of its date, as     *)
(* date.toordinal() counts it, hour the hour of the day.                   *)
(***************************************************************************)
EXTENDS Integers, Sequences, FiniteSets, TLC

\* Longest option chain handed to checkForSignal.
MaxLen == 3
\* Number of calendar years the sweep of isMonthlyExp covers.
SweepYears == 28

None == <<>>
EmptyList == <<>>

abs(x) == IF x < 0 THEN -x ELSE x

-----------------------------------------------------------------------------
(* datetime: date.toordinal(), date.fromordinal(), weekday(), .day, and    *)
(* the .days of a difference, as the source uses them.                     *)

IsLeap(y) == y % 4 = 0 /\ (y % 100 # 0 \/ y % 400 = 0)

DaysInMonth(y, m) ==
    IF m = 2 THEN (IF IsLeap(y) THEN 29 ELSE 28)
    ELSE IF m \in {4, 6, 9, 11} THEN 30 ELSE 31

DaysBeforeYear(y) ==
    (y - 1) * 365 + ((y - 1) \div 4) - ((y - 1) \div 100) + ((y - 1) \div 400)

RECURSIVE DaysBeforeMonth(_, _)
DaysBeforeMonth(y, m) ==
    IF m = 1 THEN 0 ELSE DaysBeforeMonth(y, m - 1) + DaysInMonth(y, m - 1)

\* date(y, m, d).toordinal()
Ymd2Ord(y, m, d) == DaysBeforeYear(y) + DaysBeforeMonth(y, m) + d

\* The year of date.fromordinal(n).
OrdYear(n) ==
    LET n0   == n - 1
        n400 == n0 \div 146097
        r400 == n0 % 146097
        n100 == r400 \div 36524
        r100 == r400 % 36524
        n4   == r100 \div 1461
        r4   == r100 % 1461
        n1   == r4 \div 365
        y    == n400 * 400 + 1 + n100 * 100 + n4 * 4 + n1
    IN  IF n1 = 4 \/ n100 = 4 THEN y - 1 ELSE y

RECURSIVE MonthFrom(_, _, _)
MonthFrom(y, m, rest) ==
    IF rest <= DaysInMonth(y, m) THEN m ELSE MonthFrom(y, m + 1, rest - DaysInMonth(y, m))

\* date.fromordinal(n).month and .day
OrdMonth(n) == LET y == OrdYear(n) IN MonthFrom(y, 1, n - DaysBeforeYear(y))
OrdDay(n) ==
    LET y == OrdYear(n) IN n - DaysBeforeYear(y) - DaysBeforeMonth(y, OrdMonth(n))

\* datetime(y, m, d, h)
DateTime(y, m, d, h) == [ord |-> Ymd2Ord(y, m, d), hour |-> h]

\* dt - timedelta(days=n)
MinusDays(dt, n) == [dt EXCEPT !.ord = dt.ord - n]

\* dt.weekday(): Monday is 0, Friday is 4
weekday(dt) == (dt.ord + 6) % 7

\* dt.day
day(dt) == OrdDay(dt.ord)

\* (a - b).days: a timedelta is normalised so that 0 <= seconds < 86400,
\* which makes .days the floor of the difference in days.
TimedeltaDaysTrunc(a, b) ==
    LET h == (a.ord - b.ord) * 24 + (a.hour - b.hour)
    IN  IF h < 0 THEN -((-h) \div 24) ELSE h \div 24

TimedeltaDays(a, b) ==
    LET h == (a.ord - b.ord) * 24 + (a.hour - b.hour)
    IN  h \div 24

-----------------------------------------------------------------------------
(* Inputs: the arguments a caller constructs the strategy with, and the    *)
(* option chains a tick event carries.                                     *)

\* Values a caller passes for the arguments without an implementation.
RocValues == {None, <<0>>}
MinDaysToEarningsValues == {None, <<5>>}
MinDaysSinceEarningsValues == {None, <<0>>}
AvoidAssignmentValues == {None, <<FALSE>>}
MinIVRValues == {None, <<50>>}
MaxBuyingPowerValues == {None, <<0>>}

\* expCycle: unspecified, 'm', and the word itself.
ExpCycleValues == {None, <<"m">>, <<"monthly">>}
\* minimumDTE: unspecified, zero, and a number of days.
MinimumDTEValues == {None, <<0>>, <<12>>}

CtorArgs ==
    [eventQueue : {<<>>},
     optCallDelta : {16}, maxCallDelta : {30},
     optPutDelta : {-16}, maxPutDelta : {-30},
     buyOrSell : {1}, underlying : {"SPX"}, orderQuantity : {1}, daysBeforeClose : {5},
     expCycle : ExpCycleValues, minimumDTE : MinimumDTEValues,
     roc : RocValues, minDaysToEarnings : MinDaysToEarningsValues,
     maxBuyingPower : MaxBuyingPowerValues, avoidAssignment : AvoidAssignmentValues,
     minDaysSinceEarnings : MinDaysSinceEarningsValues, minIVR : MinIVRValues]

\* The quote time every option of a chain carries.
QuoteTime == DateTime(2016, 1, 4, 10)
\* Saturday after the third Friday of January 2016: 11 days and 14 hours ahead.
ExpMonthly == DateTime(2016, 1, 16, 0)
\* Saturday after Friday the 10th of June 2016.
ExpWeekly == DateTime(2016, 6, 11, 0)
\* Midnight of the quote's own day: 10 hours behind the quote.
ExpToday == DateTime(2016, 1, 4, 0)

Option(type, delta, exp) ==
    [optionType |-> type, delta |-> delta, dte |-> exp, dateTime |-> QuoteTime]

Options ==
    { Option("CALL", 15, ExpMonthly), Option("CALL", 35, ExpMonthly),
      Option("CALL", 17, ExpWeekly), Option("CALL", -35, ExpToday),
      Option("PUT", -15, ExpMonthly), Option("PUT", -35, ExpMonthly),
      Option("PUT", -17, ExpWeekly), Option("PUT", 35, ExpToday) }

RECURSIVE SeqsUpTo(_, _)
SeqsUpTo(S, n) ==
    IF n = 0 THEN {<<>>}
    ELSE LET shorter == SeqsUpTo(S, n - 1)
         IN  shorter \cup {Append(s, x) : s \in {t \in shorter : Len(t) = n - 1}, x \in S}

Chains == SeqsUpTo(Options, MaxLen)

\* Dates isMonthlyExp is swept over.
SweepFirst == Ymd2Ord(2016, 1, 1)
SweepDates ==
    {[ord |-> n, hour |-> h] :
        n \in SweepFirst .. (SweepFirst + SweepYears * 365 + (SweepYears \div 4)),
        h \in {0, 16}}

-----------------------------------------------------------------------------
VARIABLES
    pc,                 \* "new", "raised", "ready", "loop", "done", "returned"; "probe", "probed"
    args,               \* the arguments __init__ is called with
    error,              \* the message of the exception __init__ raised, or None
    self,               \* the fields of the constructed strategy, or None
    eventData,          \* checkForSignal: event.getData()
    i,                  \* checkForSignal: options of eventData the loop has processed
    optimalCallOpt, optimalCallDelta, optimalPutOpt, optimalPutDelta,
    signal,             \* checkForSignal: data of the SignalEvent created, or None
    eventQueue,         \* the queue given at construction, as a sequence
    returned,           \* what the last checkForSignal returned
    afterSignal,        \* the call before this one created a signal
    dateTime,           \* argument of a direct call of isMonthlyExp
    monthly             \* its result, or None

locals == <<eventData, i, optimalCallOpt, optimalCallDelta, optimalPutOpt, optimalPutDelta, signal>>
vars == <<pc, args, error, self, locals, eventQueue, returned, afterSignal, dateTime, monthly>>

-----------------------------------------------------------------------------
(* __init__ *)

\* The argument checks with the test of minIVR moved to the front.
UnsupportedReordered(a) ==
    IF a.minIVR # None
    THEN <<"Specifying implied volatility rank currently not implemented / supported">>
    ELSE IF a.roc # None
    THEN <<"Specifying ROC currently not supported">>
    ELSE IF a.minDaysToEarnings # None \/ a.minDaysSinceEarnings # None
    THEN <<"Ability to filter out dates with respect to earnings currently not supported">>
    ELSE IF a.avoidAssignment # None
    THEN <<"Strategy for avoiding assignment currently not implemented / supported">>
    ELSE IF a.maxBuyingPower # None
    THEN <<"Specifying max buying power not implemented / supported">>
    ELSE None

\* The message of the NotImplementedError the argument checks raise, or None.
Unsupported(a) ==
    IF a.roc # None
    THEN <<"Specifying ROC currently not supported">>
    ELSE IF a.minDaysToEarnings # None \/ a.minDaysSinceEarnings # None
    THEN <<"Ability to filter out dates with respect to earnings currently not supported">>
    ELSE IF a.avoidAssignment # None
    THEN <<"Strategy for avoiding assignment currently not implemented / supported">>
    ELSE IF a.minIVR # None
    THEN <<"Specifying implied volatility rank currently not implemented / supported">>
    ELSE IF a.maxBuyingPower # None
    THEN <<"Specifying max buying power not implemented / supported">>
    ELSE None

\* The fields set by lines 65-70 and by strategy.Strategy.__init__.
Fields(a) ==
    <<[strategy |-> "strangle",
       optCallDelta |-> a.optCallDelta, maxCallDelta |-> a.maxCallDelta,
       optPutDelta |-> a.optPutDelta, maxPutDelta |-> a.maxPutDelta,
       buyOrSell |-> a.buyOrSell, underlying |-> a.underlying,
       orderQuantity |-> a.orderQuantity, daysBeforeClose |-> a.daysBeforeClose,
       expCycle |-> a.expCycle, minimumDTE |-> a.minimumDTE,
       roc |-> a.roc, minDaysToEarnings |-> a.minDaysToEarnings,
       maxBuyingPower |-> a.maxBuyingPower, avoidAssignment |-> a.avoidAssignment,
       minDaysSinceEarnings |-> a.minDaysSinceEarnings, minIVR |-> a.minIVR]>>

Construct ==
    /\ pc = "new"
    /\ IF Unsupported(args) # None
       THEN /\ pc' = "raised"
            /\ error' = Unsupported(args)
            /\ UNCHANGED <<self, eventQueue>>
       ELSE /\ pc' = "ready"
            /\ self' = Fields(args)
            /\ eventQueue' = args.eventQueue
            /\ UNCHANGED error
    /\ UNCHANGED <<args, locals, returned, afterSignal, dateTime, monthly>>

-----------------------------------------------------------------------------
(* Accessors.  getExpCycle and getMinimumDTE are inherited from            *)
(* strategy.Strategy.                                                      *)

getOptimalCallDelta(s) == s.optCallDelta
getMaxCallDelta(s) == s.maxCallDelta
getOptimalPutDelta(s) == s.optPutDelta
getMaxPutDelta(s) == s.maxPutDelta
getExpCycle(s) == s.expCycle
getMinimumDTE(s) == s.minimumDTE

-----------------------------------------------------------------------------
(* isMonthlyExp and hasMinimumDTE *)

\* isMonthlyExp testing the expiration date itself.
isMonthlyExpNoAdjust(dt) ==
    weekday(dt) = 4 /\ 14 < day(dt) /\ day(dt) < 22

isMonthlyExp(dt) ==
    LET adjustDate == MinusDays(dt, 1)
    IN  weekday(adjustDate) = 4 /\ 14 < day(adjustDate) /\ day(adjustDate) < 22

\* hasMinimumDTE with the days of the difference rounded towards zero.
hasMinimumDTETrunc(s, curDateTime, expDateTime) ==
    TimedeltaDaysTrunc(expDateTime, curDateTime) >= getMinimumDTE(s)[1]

hasMinimumDTE(s, curDateTime, expDateTime) ==
    TimedeltaDays(expDateTime, curDateTime) >= getMinimumDTE(s)[1]

-----------------------------------------------------------------------------
(* checkForSignal *)

\* The test of the expiration cycle made against the word "monthly".
MonthlySpecifiedWord(s) == getExpCycle(s) = <<"monthly">>

\* Lines 139 and 166: monthly options specified.
MonthlySpecified(s) == getExpCycle(s) = <<"m">>

\* Lines 139-141 and 166-168.
SkipNotMonthly(s, option) == MonthlySpecified(s) /\ ~isMonthlyExp(option.dte)

\* Lines 144-146 and 171-173.
SkipBelowMinimumDTE(s, option) ==
    /\ getMinimumDTE(s) # None
    /\ ~hasMinimumDTE(s, option.dateTime, option.dte)

\* Line 149.
CallDeltaAllowed(s, option) == option.delta <= getMaxCallDelta(s)

\* Line 176 with the deltas compared by magnitude.
PutDeltaAllowedAbs(s, option) == abs(option.delta) >= getMaxPutDelta(s)

\* Line 176.
PutDeltaAllowed(s, option) == option.delta >= getMaxPutDelta(s)

\* Lines 161 and 188 with <= for <: the last of several equally close wins.
CloserOrEqual(curDelta, optimalDelta, optCurDelta) ==
    abs(curDelta - optCurDelta) <= abs(optimalDelta - optCurDelta)

\* Lines 161 and 188 with the option's own delta on both sides of a <=: every
\* surviving option replaces the recorded one.
CloserThanItself(curDelta, optimalDelta, optCurDelta) ==
    abs(curDelta - optCurDelta) <= abs(curDelta - optCurDelta)

\* Lines 161 and 188.
Closer(curDelta, optimalDelta, optCurDelta) ==
    abs(curDelta - optCurDelta) < abs(optimalDelta - optCurDelta)

\* The accumulators kept from the previous call.
StaleAccumulators(old) == old

\* Lines 129-132.
FreshAccumulators(old) ==
    [optimalCallOpt |-> EmptyList, optimalCallDelta |-> None,
     optimalPutOpt |-> EmptyList, optimalPutDelta |-> None]

\* Lines 138-163: the body of the loop for a call.
ScanCall(s, acc, option) ==
    IF SkipNotMonthly(s, option) THEN acc
    ELSE IF SkipBelowMinimumDTE(s, option) THEN acc
    ELSE IF ~CallDeltaAllowed(s, option) THEN acc
    ELSE IF acc.optimalCallDelta = None
         THEN [acc EXCEPT !.optimalCallOpt = <<option>>, !.optimalCallDelta = <<option.delta>>]
    ELSE IF Closer(option.delta, acc.optimalCallDelta[1], getOptimalCallDelta(s))
         THEN [acc EXCEPT !.optimalCallOpt = <<option>>, !.optimalCallDelta = <<option.delta>>]
    ELSE acc

\* Lines 165-190: the body of the loop for a put.
ScanPut(s, acc, option) ==
    IF SkipNotMonthly(s, option) THEN acc
    ELSE IF SkipBelowMinimumDTE(s, option) THEN acc
    ELSE IF ~PutDeltaAllowed(s, option) THEN acc
    ELSE IF acc.optimalPutDelta = None
         THEN [acc EXCEPT !.optimalPutOpt = <<option>>, !.optimalPutDelta = <<option.delta>>]
    ELSE IF Closer(option.delta, acc.optimalPutDelta[1], getOptimalPutDelta(s))
         THEN [acc EXCEPT !.optimalPutOpt = <<option>>, !.optimalPutDelta = <<option.delta>>]
    ELSE acc

\* Lines 135-190: one iteration of the loop.
ScanOption(s, acc, option) ==
    IF option.optionType = "CALL" THEN ScanCall(s, acc, option)
    ELSE IF option.optionType = "PUT" THEN ScanPut(s, acc, option)
    ELSE acc

\* Line 193 without the comparison of the expirations.
PairFoundAnyExpiration(putOpt, callOpt) ==
    putOpt # EmptyList /\ callOpt # EmptyList

\* Line 193: a list is true when it is not empty, an option object always.
PairFound(putOpt, callOpt) ==
    /\ putOpt # EmptyList
    /\ callOpt # EmptyList
    /\ putOpt[1].dte = callOpt[1].dte

\* Lines 197-200: the data of the signal event created.
SignalData(putOpt, callOpt) == <<putOpt[1], callOpt[1]>>

Accumulators ==
    [optimalCallOpt |-> optimalCallOpt, optimalCallDelta |-> optimalCallDelta,
     optimalPutOpt |-> optimalPutOpt, optimalPutDelta |-> optimalPutDelta]

SetAccumulators(acc) ==
    /\ optimalCallOpt' = acc.optimalCallOpt
    /\ optimalCallDelta' = acc.optimalCallDelta
    /\ optimalPutOpt' = acc.optimalPutOpt
    /\ optimalPutDelta' = acc.optimalPutDelta

\* Lines 124-132: a call of checkForSignal with a tick event carrying a chain.
CheckForSignal ==
    /\ pc \in {"ready", "returned"}
    /\ pc' = "loop"
    /\ \E chain \in Chains : eventData' = chain
    /\ i' = 0
    /\ SetAccumulators(FreshAccumulators(Accumulators))
    /\ signal' = None
    /\ afterSignal' = (pc = "returned" /\ signal # None)
    /\ UNCHANGED <<args, error, self, eventQueue, returned, dateTime, monthly>>

\* Lines 135-190: the loop takes the next option of the chain.
LoopBody ==
    /\ pc = "loop"
    /\ i < Len(eventData)
    /\ i' = i + 1
    /\ SetAccumulators(ScanOption(self[1], Accumulators, eventData[i + 1]))
    /\ UNCHANGED <<pc, args, error, self, eventData, signal, eventQueue, returned,
                   afterSignal, dateTime, monthly>>

\* Lines 192-200: after the loop, the signal event is created when a pair
\* was found.  The put on the event queue (line 201) is commented out: the
\* queue is left as it is.
CrossCheck ==
    /\ pc = "loop"
    /\ i = Len(eventData)
    /\ pc' = "done"
    /\ signal' = IF PairFound(optimalPutOpt, optimalCallOpt)
                 THEN <<SignalData(optimalPutOpt, optimalCallOpt)>>
                 ELSE None
    /\ UNCHANGED <<args, error, self, eventData, i, optimalCallOpt, optimalCallDelta,
                   optimalPutOpt, optimalPutDelta, eventQueue, returned, afterSignal, dateTime,
                   monthly>>

\* Line 203: the return of the event data is commented out, so the call
\* returns None.  The tick event stays with the caller.
Return ==
    /\ pc = "done"
    /\ pc' = "returned"
    /\ returned' = None
    /\ eventData' = None
    /\ i' = 0
    /\ UNCHANGED <<args, error, self, optimalCallOpt, optimalCallDelta,
                   optimalPutOpt, optimalPutDelta, signal, eventQueue, afterSignal, dateTime,
                   monthly>>

\* A direct call of isMonthlyExp.
CallIsMonthlyExp ==
    /\ pc = "probe"
    /\ pc' = "probed"
    /\ monthly' = <<isMonthlyExp(dateTime)>>
    /\ UNCHANGED <<args, error, self, locals, eventQueue, returned, afterSignal, dateTime>>

-----------------------------------------------------------------------------
Init ==
    /\ pc = "new"
    /\ args \in CtorArgs
    /\ error = None
    /\ self = None
    /\ eventData = None
    /\ i = 0
    /\ optimalCallOpt = EmptyList
    /\ optimalCallDelta = None
    /\ optimalPutOpt = EmptyList
    /\ optimalPutDelta = None
    /\ signal = None
    /\ eventQueue = <<>>
    /\ returned = None
    /\ afterSignal = FALSE
    /\ dateTime = None
    /\ monthly = None

Next ==
    \/ Construct
    \/ CheckForSignal
    \/ LoopBody
    \/ CrossCheck
    \/ Return

Spec == Init /\ [][Next]_vars

\* The specification of isMonthlyExp alone, called on every date of the sweep.
InitMonthly ==
    /\ pc = "probe"
    /\ args = None
    /\ error = None
    /\ self = None
    /\ eventData = None
    /\ i = 0
    /\ optimalCallOpt = EmptyList
    /\ optimalCallDelta = None
    /\ optimalPutOpt = EmptyList
    /\ optimalPutDelta = None
    /\ signal = None
    /\ eventQueue = <<>>
    /\ returned = None
    /\ afterSignal = FALSE
    /\ dateTime \in SweepDates
    /\ monthly = None

NextMonthly == CallIsMonthlyExp

SpecMonthly == InitMonthly /\ [][NextMonthly]_vars

-----------------------------------------------------------------------------
(* Definitions the properties below are stated with.  They are written     *)
(* from the arguments of the constructor (args), not from the accessors.   *)

Distance(delta, optimalDelta) == abs(delta - optimalDelta)

\* The days of a difference of two datetimes, rounded down.
FloorDays(exp, cur) ==
    LET h == (exp.ord - cur.ord) * 24 + (exp.hour - cur.hour)
    IN  (h - (h % 24)) \div 24

BelowMinimumDTE(o) ==
    IF args.minimumDTE = None THEN FALSE
    ELSE FloorDays(o.dte, o.dateTime) < args.minimumDTE[1]

NotMonthlyUnderM(o) == args.expCycle = <<"m">> /\ ~isMonthlyExp(o.dte)

DeltaWithinMax(o) ==
    IF o.optionType = "CALL" THEN o.delta <= args.maxCallDelta
    ELSE o.delta >= args.maxPutDelta

OptimalDeltaOf(type) == IF type = "CALL" THEN args.optCallDelta ELSE args.optPutDelta

\* The option survives the three filters.
Survives(o) == ~NotMonthlyUnderM(o) /\ ~BelowMinimumDTE(o) /\ DeltaWithinMax(o)

\* Positions among the first n of chain of the surviving options of a type.
Survivors(chain, n, type) ==
    {k \in 1..n : chain[k].optionType = type /\ Survives(chain[k])}

\* The first position among the survivors at the least distance from the
\* optimal delta.
BestOf(chain, n, type) ==
    LET S == Survivors(chain, n, type)
        d(k) == Distance(chain[k].delta, OptimalDeltaOf(type))
    IN  CHOOSE k \in S : \A j \in S : d(k) < d(j) \/ (d(k) = d(j) /\ k <= j)

\* The scan of a whole chain of n options from fresh accumulators, and the
\* signal data it ends with.
RECURSIVE ScanFrom(_, _, _, _, _)
ScanFrom(s, acc, chain, k, n) ==
    IF k > n THEN acc ELSE ScanFrom(s, ScanOption(s, acc, chain[k]), chain, k + 1, n)

EmptyAccumulators ==
    [optimalCallOpt |-> <<>>, optimalCallDelta |-> <<>>,
     optimalPutOpt |-> <<>>, optimalPutDelta |-> <<>>]

Outcome(s, chain, n) ==
    LET acc == ScanFrom(s, EmptyAccumulators, chain, 1, n)
    IN  IF PairFound(acc.optimalPutOpt, acc.optimalCallOpt)
        THEN <<SignalData(acc.optimalPutOpt, acc.optimalCallOpt)>>
        ELSE None

\* No two surviving options of one type are equally far from the optimum.
NoTies(chain, n) ==
    \A j, k \in 1..n :
        (/\ j # k
         /\ chain[j].optionType = chain[k].optionType
         /\ Survives(chain[j]) /\ Survives(chain[k]))
        => Distance(chain[j].delta, OptimalDeltaOf(chain[j].optionType))
             # Distance(chain[k].delta, OptimalDeltaOf(chain[k].optionType))

Scanning == pc \in {"loop", "done"}

-----------------------------------------------------------------------------
\* C1: a signal is created only if a call and a put were recorded and the two
\* have the same dte; when no call survived, no put survived, or the best
\* surviving call and put differ in dte, none is created.
C1_SignalOnlyForMatchingPair ==
    pc = "done" =>
        /\ signal # None =>
              /\ optimalCallDelta # None /\ optimalPutDelta # None
              /\ optimalPutOpt[1].dte = optimalCallOpt[1].dte
        /\ LET n == Len(eventData)
               calls == Survivors(eventData, n, "CALL")
               puts == Survivors(eventData, n, "PUT")
           IN  (\/ calls = {} \/ puts = {}
                \/ eventData[BestOf(eventData, n, "CALL")].dte
                     # eventData[BestOf(eventData, n, "PUT")].dte)
               => signal = None

\* The best call and best put differ in dte and no signal was created,
\* although a surviving call and a surviving put of the chain share a dte.
C1_Witness ==
    /\ pc = "done"
    /\ signal = None
    /\ optimalCallDelta # None /\ optimalPutDelta # None
    /\ optimalPutOpt[1].dte # optimalCallOpt[1].dte
    /\ \E j, k \in 1..Len(eventData) :
          /\ eventData[j].optionType = "CALL" /\ Survives(eventData[j])
          /\ eventData[k].optionType = "PUT" /\ Survives(eventData[k])
          /\ eventData[j].dte = eventData[k].dte

\* C2: when the scan ends with a best call and a best put of equal dte, the
\* signal holding (put, call) is put on the event queue or returned.
C2_SignalDelivered ==
    (pc = "returned" /\ PairFound(optimalPutOpt, optimalCallOpt)) =>
        \/ /\ eventQueue # <<>>
           /\ eventQueue[Len(eventQueue)] = SignalData(optimalPutOpt, optimalCallOpt)
        \/ returned = <<SignalData(optimalPutOpt, optimalCallOpt)>>

\* C3: throughout the scan the recorded call (put) is the surviving call
\* (put) seen so far at the least distance from optCallDelta (optPutDelta),
\* the first of them when several are equally close; none is recorded
\* while none has survived.
C3_DeltaOptimality ==
    Scanning =>
        /\ IF Survivors(eventData, i, "CALL") = {}
           THEN optimalCallOpt = EmptyList /\ optimalCallDelta = None
           ELSE LET b == eventData[BestOf(eventData, i, "CALL")]
                IN  optimalCallOpt = <<b>> /\ optimalCallDelta = <<b.delta>>
        /\ IF Survivors(eventData, i, "PUT") = {}
           THEN optimalPutOpt = EmptyList /\ optimalPutDelta = None
           ELSE LET b == eventData[BestOf(eventData, i, "PUT")]
                IN  optimalPutOpt = <<b>> /\ optimalPutDelta = <<b.delta>>

\* A surviving call was replaced by a closer one, and a later call of another
\* delta, as close as that one, did not replace it.
C3_Witness ==
    /\ pc = "done"
    /\ \E j, k, l \in Survivors(eventData, i, "CALL") :
          /\ j < k /\ k < l
          /\ Distance(eventData[k].delta, args.optCallDelta)
               < Distance(eventData[j].delta, args.optCallDelta)
          /\ eventData[k].delta # eventData[l].delta
          /\ Distance(eventData[k].delta, args.optCallDelta)
               = Distance(eventData[l].delta, args.optCallDelta)
          /\ optimalCallOpt = <<eventData[k]>>

\* The checks of the unsupported arguments in their order, the message of
\* each, and the checks the arguments of this construction violate.
C4_Checks ==
    <<{"roc"}, {"minDaysToEarnings", "minDaysSinceEarnings"}, {"avoidAssignment"},
      {"minIVR"}, {"maxBuyingPower"}>>

C4_Messages ==
    <<"Specifying ROC currently not supported",
      "Ability to filter out dates with respect to earnings currently not supported",
      "Strategy for avoiding assignment currently not implemented / supported",
      "Specifying implied volatility rank currently not implemented / supported",
      "Specifying max buying power not implemented / supported">>

C4_Violated == {k \in 1..5 : \E f \in C4_Checks[k] : args[f] # None}

\* C4: the constructor raises exactly when an argument without an
\* implementation is not None, and the error is that of the first violated
\* check in the order roc, earnings dates, avoidAssignment, minIVR,
\* maxBuyingPower.
C4_FirstUnsupportedRaised ==
    pc \in {"raised", "ready", "loop", "done", "returned"} =>
        IF C4_Violated = {}
        THEN pc # "raised" /\ error = None /\ self # None
        ELSE /\ pc = "raised"
             /\ self = None
             /\ \E k \in C4_Violated :
                   /\ \A j \in C4_Violated : k <= j
                   /\ error = <<C4_Messages[k]>>

\* minIVR and maxBuyingPower were both given and the error is that of minIVR.
C4_Witness ==
    /\ pc = "raised"
    /\ C4_Violated = {4, 5}
    /\ error = <<C4_Messages[4]>>

-----------------------------------------------------------------------------
\* The calendar, for C5: the day before a date, and the number of Fridays of
\* the month up to a day.
PrevYmd(y, m, d) ==
    IF d > 1 THEN <<y, m, d - 1>>
    ELSE IF m > 1 THEN <<y, m - 1, DaysInMonth(y, m - 1)>>
    ELSE <<y - 1, 12, 31>>

DayBefore(dt) == PrevYmd(OrdYear(dt.ord), OrdMonth(dt.ord), OrdDay(dt.ord))

IsFriday(ymd) == weekday(DateTime(ymd[1], ymd[2], ymd[3], 0)) = 4

FridaysUpTo(ymd) ==
    Cardinality({d \in 1..ymd[3] : IsFriday(<<ymd[1], ymd[2], d>>)})

-----------------------------------------------------------------------------
\* C6: a recorded call has delta <= maxCallDelta and a recorded put has
\* delta >= maxPutDelta, the deltas compared with their signs; a chain
\* without a call of delta <= maxCallDelta ends without a signal.
C6_TypeSpecificDeltaFilter ==
    Scanning =>
        /\ optimalCallOpt # EmptyList =>
              /\ optimalCallOpt[1].optionType = "CALL"
              /\ optimalCallOpt[1].delta <= args.maxCallDelta
        /\ optimalPutOpt # EmptyList =>
              /\ optimalPutOpt[1].optionType = "PUT"
              /\ optimalPutOpt[1].delta >= args.maxPutDelta
        /\ (/\ pc = "done"
            /\ \A k \in 1..Len(eventData) :
                  eventData[k].optionType = "CALL" => eventData[k].delta > args.maxCallDelta)
           => signal = None

\* The only call of the chain has a delta above maxCallDelta, a put of the
\* same dte was recorded, and no signal was created.
C6_Witness ==
    /\ pc = "done"
    /\ Cardinality({k \in 1..Len(eventData) : eventData[k].optionType = "CALL"}) = 1
    /\ \E k \in 1..Len(eventData) :
          /\ eventData[k].optionType = "CALL"
          /\ eventData[k].delta > args.maxCallDelta
          /\ optimalPutOpt # EmptyList
          /\ optimalPutOpt[1].dte = eventData[k].dte
    /\ signal = None

\* One iteration of the loop, for C7.
C7_Iteration ==
    (pc = "loop" /\ pc' = "loop") =>
        LET o == eventData[i']
        IN  ~NotMonthlyUnderM(o) =>
              /\ BelowMinimumDTE(o) =>
                    UNCHANGED <<optimalCallOpt, optimalCallDelta, optimalPutOpt, optimalPutDelta>>
              /\ (~BelowMinimumDTE(o) /\ DeltaWithinMax(o)) =>
                    /\ (o.optionType = "CALL" /\ optimalCallDelta = None)
                         => optimalCallOpt' = <<o>>
                    /\ (o.optionType = "PUT" /\ optimalPutDelta = None)
                         => optimalPutOpt' = <<o>>
              /\ args.minimumDTE # None =>
                    /\ hasMinimumDTE(self[1], o.dateTime, o.dte) \in BOOLEAN
                    /\ hasMinimumDTE(self[1], o.dateTime, o.dte)
                         = (FloorDays(o.dte, o.dateTime) >= args.minimumDTE[1])

\* C7: with minimumDTE given (0 included) the loop skips an option that
\* passed the cycle filter iff the days from its quote to its expiration,
\* rounded down, are below minimumDTE; with minimumDTE None it skips none
\* here.  hasMinimumDTE is a boolean for every difference, negative or zero
\* included.
C7_MinimumDTEFilter == [][C7_Iteration]_vars

\* With minimumDTE 0, an option expiring 10 hours before its quote (-1 days)
\* was skipped and one of 11 days was recorded after it.
C7_Witness ==
    /\ pc = "loop"
    /\ i = 2
    /\ args.minimumDTE = <<0>>
    /\ FloorDays(eventData[1].dte, eventData[1].dateTime) = -1
    /\ DeltaWithinMax(eventData[1])
    /\ eventData[2].optionType = eventData[1].optionType
    /\ eventData[2].optionType = "CALL"
    /\ FloorDays(eventData[2].dte, eventData[2].dateTime) = 11
    /\ optimalCallOpt = <<eventData[2]>>

\* C8 as stated: with expCycle "monthly" no option whose expiration is not
\* monthly is recorded or appears in a signal.
C8_MonthlyWordFilters ==
    (Scanning /\ args.expCycle = <<"monthly">>) =>
        /\ optimalCallOpt # EmptyList => isMonthlyExp(optimalCallOpt[1].dte)
        /\ optimalPutOpt # EmptyList => isMonthlyExp(optimalPutOpt[1].dte)
        /\ signal # None => \A k \in 1..2 : isMonthlyExp(signal[1][k].dte)

\* What is recorded under 'm', and one iteration of the loop, for C8.
C8_Recorded ==
    (Scanning /\ args.expCycle = <<"m">>) =>
        /\ optimalCallOpt # EmptyList => isMonthlyExp(optimalCallOpt[1].dte)
        /\ optimalPutOpt # EmptyList => isMonthlyExp(optimalPutOpt[1].dte)
        /\ signal # None => \A k \in 1..2 : isMonthlyExp(signal[1][k].dte)

C8_Iteration ==
    (pc = "loop" /\ pc' = "loop") =>
        LET o == eventData[i']
        IN  /\ (args.expCycle = <<"m">> /\ ~isMonthlyExp(o.dte)) =>
                  UNCHANGED <<optimalCallOpt, optimalCallDelta, optimalPutOpt, optimalPutDelta>>
            /\ (/\ args.expCycle # <<"m">>
                /\ ~BelowMinimumDTE(o) /\ DeltaWithinMax(o)) =>
                  /\ (o.optionType = "CALL" /\ optimalCallDelta = None)
                       => optimalCallOpt' = <<o>>
                  /\ (o.optionType = "PUT" /\ optimalPutDelta = None)
                       => optimalPutOpt' = <<o>>

\* C8 amended: with expCycle 'm' the loop skips every call and put whose
\* expiration is not monthly, and none is recorded or appears in a signal;
\* with any other expCycle (None, "monthly") the loop skips no option on
\* account of its expiration cycle.
C8_ExpirationCycleFilter == []C8_Recorded /\ [][C8_Iteration]_vars

\* With expCycle 'm', a call expiring the day after Friday the 10th was
\* skipped and the signal holds the monthly pair that followed.
C8_Witness ==
    /\ pc = "done"
    /\ args.expCycle = <<"m">>
    /\ Len(eventData) >= 3
    /\ eventData[1].optionType = "CALL"
    /\ DeltaWithinMax(eventData[1])
    /\ weekday(MinusDays(eventData[1].dte, 1)) = 4
    /\ day(MinusDays(eventData[1].dte, 1)) = 10
    /\ signal # None
    /\ signal[1][2] # eventData[1]
    /\ \A k \in 1..2 : isMonthlyExp(signal[1][k].dte)

\* C9: when no two surviving options of one type are equally far from the
\* optimal delta, every permutation of the chain ends with the same signal
\* data, or with none in every order.
C9_OrderIndependence ==
    (pc = "done" /\ NoTies(eventData, Len(eventData))) =>
        LET n == Len(eventData)
        IN  \A p \in Permutations(1..n) :
               Outcome(self[1], [k \in 1..n |-> eventData[p[k]]], n) = signal

\* A chain without ties in which a later call replaced an earlier one and a
\* signal was created.
C9_Witness ==
    /\ pc = "done"
    /\ NoTies(eventData, Len(eventData))
    /\ signal # None
    /\ \E j, k \in Survivors(eventData, Len(eventData), "CALL") :
          j < k /\ optimalCallOpt = <<eventData[k]>>

\* One step of the strategy, for C10.
C10_Step ==
    /\ (pc \in {"ready", "returned"} /\ pc' = "loop") =>
          /\ optimalCallOpt' = EmptyList /\ optimalCallDelta' = None
          /\ optimalPutOpt' = EmptyList /\ optimalPutDelta' = None
    /\ pc \in {"ready", "loop", "done", "returned"} => self' = self
    /\ (pc \in {"loop", "done"} /\ pc' \in {"loop", "done"}) => eventData' = eventData
    /\ (pc = "loop" /\ pc' = "done") =>
          signal' = Outcome(self[1], eventData, Len(eventData))

\* C10: every call starts from empty accumulators, no step of a call changes
\* the fields of the strategy or the options of the chain, and the signal a
\* call ends with is the one the scan of its chain from empty accumulators
\* gives, whatever was scanned before.
C10_CallsIndependent == [][C10_Step]_vars

\* The call before this one created a signal; this one, on a chain without
\* a surviving option, ended with nothing recorded and no signal.
C10_Witness ==
    /\ pc = "done"
    /\ afterSignal
    /\ Len(eventData) > 0
    /\ signal = None
    /\ optimalCallOpt = EmptyList
    /\ optimalPutOpt = EmptyList

====
